---- MODULE Spec2Model ----
(***************************************************************************)
(* Model of us_map_led_cylinders.py: a Blender script that imports a map   *)
(* image as a plane and, for every entry of states_dict, builds a cylinder *)
(* marker, an extruded text label and a collection holding both.           *)
(*                                                                         *)
(* The host (bpy) state the script reads and writes is modelled as far as  *)
(* the script can observe it: objects, collections, materials with their   *)
(* node trees, the selection, the active object, the interaction mode and  *)
(* the add-on registry.                                                    *)
(*                                                                         *)
(* Spec is the script as written (__main__, lines 193-219), run once and   *)
(* then run again on the scene it left; SpecFair is Spec with the          *)
(* interpreter going on as long as there is a statement to execute.        *)
(* SpecApi calls the script's scene functions in any order with inputs     *)
(* drawn from small sets, for the contracts of the single functions, and   *)
(* SpecShader does the same for new_shader.                                *)
(***************************************************************************)
EXTENDS Integers, Sequences, FiniteSets, TLC

(***************************************************************************)
(* Numbers.  Python floats are modelled as exact rationals <<n, d>> with   *)
(* d > 0 and gcd(n, d) = 1.                                                *)
(***************************************************************************)
Abs(n) == IF n < 0 THEN 0 - n ELSE n

RECURSIVE GCD(_, _)
GCD(a, b) == IF b = 0 THEN a ELSE GCD(b, a % b)

Rat(n, d) ==
    LET s == IF d < 0 THEN 0 - 1 ELSE 1
        g == GCD(Abs(n), Abs(d))
    IN  <<(s * n) \div g, (s * d) \div g>>

R(n) == <<n, 1>>

RatAdd(a, b) == Rat(a[1] * b[2] + b[1] * a[2], a[2] * b[2])
RatSub(a, b) == Rat(a[1] * b[2] - b[1] * a[2], a[2] * b[2])
RatMul(a, b) == Rat(a[1] * b[1], a[2] * b[2])
RatDiv(a, b) == Rat(a[1] * b[2], a[2] * b[1])

(***************************************************************************)
(* str.format of a float: sign, integer part, '.', the decimal digits of   *)
(* the fraction ('0' when there are none), as Python's repr prints the     *)
(* values of the dataset (multiples of 0.5).                               *)
(***************************************************************************)
RECURSIVE FracDigits(_, _, _)
FracDigits(rem, d, k) ==
    IF rem = 0 \/ k = 0 THEN ""
    ELSE ToString((rem * 10) \div d) \o FracDigits((rem * 10) % d, d, k - 1)

FormatFloatTruncated(r) ==
    (IF r[1] < 0 THEN "-" ELSE "") \o ToString(Abs(r[1]) \div r[2]) \o "."

FormatFloat(r) ==
    LET a == Abs(r[1])
    IN  (IF r[1] < 0 THEN "-" ELSE "")
        \o ToString(a \div r[2]) \o "."
        \o (IF a % r[2] = 0 THEN "0" ELSE FracDigits(a % r[2], r[2], 17))

\* str.format of an int
FormatInt(n) == ToString(n)

\* 'LED_{}_{}_{}'.format(x, y, z)
LedName(x, y, z) ==
    "LED_" \o FormatFloat(x) \o "_" \o FormatFloat(y) \o "_" \o FormatFloat(z)

\* 'Text_{}_{}_{}'.format(x, y, z)
TextBaseId(x, y, z) ==
    "Text_" \o FormatFloat(x) \o "_" \o FormatFloat(y) \o "_" \o FormatFloat(z)

\* baseid + '_font'
FontName(baseid) == baseid \o "_font"

GroupNameBare(label) == label

\* label + '_led'
GroupName(label) == label \o "_led"

\* 'LEDShader_{}_{}_{}'.format(r, g, b) and 'TextShader_{}_{}_{}'.format(0, 0, 0)
LedShaderKey(r, g, b) ==
    "LEDShader_" \o FormatInt(r) \o "_" \o FormatInt(g) \o "_" \o FormatInt(b)

TextShaderKey(r, g, b) ==
    "TextShader_" \o FormatInt(r) \o "_" \o FormatInt(g) \o "_" \o FormatInt(b)

(***************************************************************************)
(* Names of the host's data blocks are unique per kind.  A requested name  *)
(* that is taken is replaced by its stem (the name without a trailing      *)
(* '.digits') followed by '.001', '.002', ... : the first one free.        *)
(***************************************************************************)
Digits == {"0", "1", "2", "3", "4", "5", "6", "7", "8", "9"}

IsDigits(s) == Len(s) > 0 /\ \A i \in 1..Len(s) : SubSeq(s, i, i) \in Digits

RECURSIVE LastDot(_, _)
LastDot(s, i) ==
    IF i = 0 THEN 0
    ELSE IF SubSeq(s, i, i) = "." THEN i ELSE LastDot(s, i - 1)

NameStem(s) ==
    LET p == LastDot(s, Len(s))
    IN  IF p > 0 /\ IsDigits(SubSeq(s, p + 1, Len(s))) THEN SubSeq(s, 1, p - 1) ELSE s

Suffix(k) ==
    "." \o (IF k < 10 THEN "00" ELSE IF k < 100 THEN "0" ELSE "") \o ToString(k)

RECURSIVE FirstFree(_, _, _)
FirstFree(stem, used, k) ==
    IF (stem \o Suffix(k)) \notin used THEN stem \o Suffix(k)
    ELSE FirstFree(stem, used, k + 1)

UniqueName(name, used) ==
    IF name \notin used THEN name ELSE FirstFree(NameStem(name), used, 1)

\* str.startswith
StartsWith(s, prefix) ==
    Len(s) >= Len(prefix) /\ SubSeq(s, 1, Len(prefix)) = prefix

(***************************************************************************)
(* Bounds of the model and the inputs the calls are drawn from.            *)
(***************************************************************************)
\* entries of states_dict a run iterates over
NumEntries == 2
\* executions of the script in one behaviour of Spec
MaxRuns == 2
\* objects the scene may hold when a function of SpecApi is called
MaxObjects == 5

\* states_dict, lines 173-191 (its first entries, in order)
StatesDict ==
    << [state |-> "AL", pos |-> <<R(14), R(0 - 1), R(0)>>],
       [state |-> "AK", pos |-> <<R(0 - 3), R(0 - 25), R(0)>>],
       [state |-> "AZ", pos |-> <<Rat(0 - 51, 2), R(1), R(0)>>],
       [state |-> "AR", pos |-> <<Rat(11, 2), R(1), R(0)>>] >>

Entries == SubSeq(StatesDict, 1, NumEntries)

\* pixel sizes <<width, height>> of the map image, when it exists
ImageSizes == {<<2000, 1000>>, <<3, 2>>, <<1000, 1500>>}
\* the name the importer gives the plane: the image's file name without its suffix
PlaneName == "us_map"

\* inputs of the calls of SpecApi
ApiSizes == {90, 7}
ApiKeys == {LedShaderKey(255, 255, 255), TextShaderKey(0, 0, 0)}
ApiKinds == {"emissive", "diffuse", "specular"}
ApiColours == {<<255, 255, 255>>, <<0, 0, 0>>, <<255, 0, 0>>}
ApiIntensities == {1, 2}
ApiPositions == {StatesDict[1].pos, <<Rat(11, 2), Rat(17, 2), R(1)>>}
ApiLabels == {"AL", "Alaska"}

RootName == "Scene Collection"
None == 0

VARIABLES
    objects,           \* bpy.data.objects of the scene: id -> object
    rootObjects,       \* bpy.context.scene.collection.objects: ids
    collections,       \* bpy.data.collections, all children of the scene: name -> ids
    activeCollection,  \* the collection operators add new objects to
    materials,         \* bpy.data.materials: key -> material
    selected,          \* ids of the selected objects
    active,            \* bpy.context.active_object: an id or None
    mode,              \* "OBJECT" or "EDIT"
    editing,           \* ids of the objects in edit mode
    addon,             \* loaded state of io_import_images_as_planes
    image,             \* the file at image_path: [exists, size]
    pc,                \* position inside the function being executed
    frame,             \* locals of draw_object and the scene at its entry
    main,              \* position of __main__: [phase, i, run]
    trace,             \* functions __main__ has called in this run, in order
    last,              \* the call that returned last, its inputs and outcome
    firstRun           \* the scene the first run of the script left

scene == <<objects, rootObjects, collections, activeCollection, materials,
           selected, active, mode, editing, addon>>
vars == <<objects, rootObjects, collections, activeCollection, materials,
          selected, active, mode, editing, addon, image, pc, frame, main,
          trace, last, firstRun>>

(***************************************************************************)
(* Materials and node trees: new_material and new_shader, lines 65-105.    *)
(* A node tree is a map from node names to nodes and a set of links; a     *)
(* link joins outputs[0] of node "from" to inputs[0] of node "to".         *)
(* inputs[1] of the model is inputs[0] of the script.                      *)
(***************************************************************************)
NoNodes == [n \in {} |-> None]

Colour(r, g, b) == <<R(r), R(g), R(b), R(1)>>

NodeLabel(type) ==
    CASE type = "ShaderNodeOutputMaterial" -> "Material Output"
      [] type = "ShaderNodeEmission" -> "Emission"
      [] type = "ShaderNodeBsdfDiffuse" -> "Diffuse BSDF"
      [] type = "ShaderNodeBsdfPrincipled" -> "Principled BSDF"

\* the inputs a node has when the host creates it
DefaultInputs(type) ==
    CASE type = "ShaderNodeOutputMaterial" -> <<>>
      [] type = "ShaderNodeEmission" -> <<<<R(1), R(1), R(1), R(1)>>, R(1)>>
      [] type = "ShaderNodeBsdfDiffuse" ->
            <<<<Rat(4, 5), Rat(4, 5), Rat(4, 5), R(1)>>, R(0)>>
      [] type = "ShaderNodeBsdfPrincipled" ->
            <<<<Rat(4, 5), Rat(4, 5), Rat(4, 5), R(1)>>, R(0)>>

\* nodes.new(type=...): the name the new node gets, and the tree with it
NewNodeName(nodes, type) == UniqueName(NodeLabel(type), DOMAIN nodes)

NodesNew(nodes, type) ==
    nodes @@ (NewNodeName(nodes, type) :> [type |-> type, inputs |-> DefaultInputs(type)])

\* bpy.data.materials.new(name=id): no node tree yet
FreshMaterial == [use_nodes |-> FALSE, has_tree |-> FALSE, nodes |-> NoNodes, links |-> {}]

\* the tree the host builds when use_nodes is first switched on
DefaultTree ==
    [use_nodes |-> TRUE, has_tree |-> TRUE,
     nodes |-> NodesNew(NodesNew(NoNodes, "ShaderNodeBsdfPrincipled"),
                        "ShaderNodeOutputMaterial"),
     links |-> {[from |-> "Principled BSDF", to |-> "Material Output"]}]

\* mat.use_nodes = True, line 72
UseNodes(mat) == IF mat.has_tree THEN [mat EXCEPT !.use_nodes = TRUE] ELSE DefaultTree

ClearTreeSkipped(mat) == mat

\* lines 74-76
ClearTree(mat) ==
    IF mat.has_tree THEN [mat EXCEPT !.links = {}, !.nodes = NoNodes] ELSE mat

\* new_material(id), lines 65-78: the material under id afterwards
NewMaterial(mats, id) ==
    ClearTree(UseNodes(IF id \in DOMAIN mats THEN mats[id] ELSE FreshMaterial))

\* the shader node type of a kind, lines 91-98; None when the kind is unknown
ShaderType(node_type) ==
    CASE node_type = "emissive" -> "ShaderNodeEmission"
      [] node_type = "diffuse" -> "ShaderNodeBsdfDiffuse"
      [] OTHER -> "None"

EmissionInputsDefaultStrength(r, g, b, intensity) == <<Colour(r, g, b), R(1)>>

\* lines 93-94
EmissionInputs(r, g, b, intensity) == <<Colour(r, g, b), R(intensity)>>

\* line 98: inputs[0] is set, the other input keeps its value
DiffuseInputs(old, r, g, b) == [old EXCEPT ![1] = Colour(r, g, b)]

\* new_shader(id, node_type, r, g, b, intensity), lines 81-105:
\* the material under id afterwards and whether TypeError was raised
NewShader(mats, id, node_type, r, g, b, intensity) ==
    LET mat == NewMaterial(mats, id)
        outName == NewNodeName(mat.nodes, "ShaderNodeOutputMaterial")
        n1 == NodesNew(mat.nodes, "ShaderNodeOutputMaterial")
        type == ShaderType(node_type)
    IN  IF type = "None"
        THEN [mat |-> [mat EXCEPT !.nodes = n1], raised |-> TRUE]
        ELSE LET shader == NewNodeName(n1, type)
                 n2 == NodesNew(n1, type)
                 \* nodes['Emission'] / nodes["Diffuse BSDF"]: a lookup by name
                 target == NodeLabel(type)
                 n3 == IF node_type = "emissive"
                       THEN [n2 EXCEPT ![target].inputs = EmissionInputs(r, g, b, intensity)]
                       ELSE [n2 EXCEPT ![target].inputs = DiffuseInputs(@, r, g, b)]
             IN  [mat |-> [mat EXCEPT !.nodes = n3,
                                      !.links = {[from |-> shader, to |-> outName]}],
                  raised |-> FALSE]

(***************************************************************************)
(* Objects, collections and selection.                                     *)
(***************************************************************************)
Origin == <<R(0), R(0), R(0)>>

NewId(objs) ==
    CHOOSE i \in 1..(Cardinality(DOMAIN objs) + 1) :
        i \notin DOMAIN objs /\ \A j \in 1..(i - 1) : j \in DOMAIN objs

ObjectNames(objs) == {objs[i].name : i \in DOMAIN objs}

\* the scene as the claims compare it before and after a call
Snapshot ==
    [objects |-> objects, rootObjects |-> rootObjects, collections |-> collections,
     activeCollection |-> activeCollection, materials |-> materials,
     selected |-> selected, active |-> active]

\* an operator that adds an object puts it in the active collection
LinkedToActive(id) ==
    IF activeCollection = RootName
    THEN /\ rootObjects' = rootObjects \cup {id}
         /\ UNCHANGED collections
    ELSE /\ collections' = [collections EXCEPT ![activeCollection] = @ \cup {id}]
         /\ UNCHANGED rootObjects

NoFrame == [op |-> "none"]

(***************************************************************************)
(* init_blender_env, lines 17-29.                                          *)
(***************************************************************************)
\* line 22: select_all(action='SELECT') selects the objects that are not hidden
SelectAll(objs) == {i \in DOMAIN objs : ~objs[i].hide}

UserCollectionsAll(colls) == DOMAIN colls

UserCollectionsSkipping(colls) ==
    LET user == {c \in DOMAIN colls : ~StartsWith(c, "Scene")}
    IN  IF Cardinality(user) < 2 THEN user
        ELSE user \ {CHOOSE c \in user : TRUE}

\* line 25
UserCollections(colls) == {c \in DOMAIN colls : ~StartsWith(c, "Scene")}

InitBlenderEnv ==
    LET gone == SelectAll(objects)
        kept == DOMAIN collections \ UserCollections(collections)
    IN  /\ objects' = [i \in DOMAIN objects \ gone |-> objects[i]]
        /\ rootObjects' = rootObjects \ gone
        /\ collections' = [c \in kept |-> collections[c] \ gone]
        /\ activeCollection' = IF activeCollection \in kept THEN activeCollection
                               ELSE RootName
        /\ selected' = {}
        /\ active' = IF active \in gone THEN None ELSE active
        /\ UNCHANGED <<materials, mode, editing, addon>>

(***************************************************************************)
(* load_us_map, lines 32-62.                                               *)
(***************************************************************************)
PlaneDimensionsFloorDiv(max_size_dim, size) ==
    <<R(max_size_dim), RatMul(R(max_size_dim), R(size[2] \div size[1])), R(0)>>

\* lines 47-57: size is image.size, <<width, length>>
PlaneDimensions(max_size_dim, size) ==
    LET width == R(size[1])
        length == R(size[2])
        length_ratio == RatDiv(length, width)
        plane_width == R(max_size_dim)
        plane_length == RatMul(plane_width, length_ratio)
    IN  <<plane_width, plane_length, R(0)>>

\* lines 41-60: the imported plane, sized and placed
Plane(objs, max_size_dim, size) ==
    [name |-> UniqueName(PlaneName, ObjectNames(objs)),
     type |-> "MESH", shape |-> "plane", body |-> "", materials |-> <<>>,
     dimensions |-> PlaneDimensions(max_size_dim, size),
     location |-> Origin, history |-> <<>>, hide |-> FALSE]

\* line 40: image_path.exists()
Imports(img) == img.exists

NotFoundMovesObjects(objs) == [i \in DOMAIN objs |-> [objs[i] EXCEPT !.location = Origin]]

\* lines 61-62: the objects after the else branch, which only prints
NotFound(objs) == objs

LoadUsMap(max_size_dim) ==
    /\ addon' = TRUE
    /\ IF Imports(image)
       THEN LET id == NewId(objects)
            IN  /\ objects' = objects @@ (id :> Plane(objects, max_size_dim, image.size))
                /\ LinkedToActive(id)
                /\ selected' = {id}
                /\ active' = id
       ELSE /\ objects' = NotFound(objects)
            /\ UNCHANGED <<rootObjects, collections, selected, active>>
    /\ UNCHANGED <<activeCollection, materials, mode, editing>>
    /\ last' = [op |-> "load_us_map", max_size_dim |-> max_size_dim,
                found |-> image.exists, reported |-> ~Imports(image),
                loaded |-> addon, enabled |-> ~addon, raised |-> FALSE]

(***************************************************************************)
(* draw_object, lines 119-161, one action per group of lines.              *)
(***************************************************************************)
\* line 120: radius and depth of the cylinder as its bounding box
CylinderDimensions(radius, depth) ==
    <<RatMul(R(2), radius), RatMul(R(2), radius), depth>>

\* the bounding box of a text curve before it is resized: it grows with the text
TextDimensions(text) == <<Rat(Len(text), 2), R(1), R(0)>>

MarkerMaterialsSwapped(mat, texmat) == <<texmat>>

\* line 122: led.data.materials.append(mat), on the new cylinder's empty list
MarkerMaterials(mat, texmat) == <<mat>>

\* lines 120-123
DrawCylinder(x, y, z, mat, label, texmat) ==
    LET id == NewId(objects)
    IN  /\ objects' = objects @@ (id :>
              [name |-> UniqueName(LedName(x, y, z), ObjectNames(objects)),
               type |-> "MESH", shape |-> "cylinder", body |-> "",
               materials |-> MarkerMaterials(mat, texmat),
               dimensions |-> CylinderDimensions(Rat(1, 2), Rat(1, 2)),
               location |-> <<x, y, z>>, history |-> <<>>, hide |-> FALSE])
        /\ LinkedToActive(id)
        /\ selected' = {id}
        /\ active' = id
        /\ frame' = [op |-> "draw_object", x |-> x, y |-> y, z |-> z, mat |-> mat,
                     label |-> label, texmat |-> texmat, led |-> id, text |-> None,
                     coll |-> "", pre |-> Snapshot]
        /\ pc' = "new_text"
        /\ last' = [op |-> "none"]
        /\ UNCHANGED <<activeCollection, materials, mode, editing, addon, image>>

\* lines 125-128, new_text at lines 108-116
DrawNewText ==
    /\ pc = "new_text"
    /\ LET id == NewId(objects)
           text_str == TextBaseId(frame.x, frame.y, frame.z)
       IN  /\ objects' = objects @@ (id :>
                 [name |-> UniqueName(FontName(text_str), ObjectNames(objects)),
                  type |-> "FONT", shape |-> "text", body |-> frame.label,
                  materials |-> <<frame.texmat>>,
                  dimensions |-> TextDimensions(frame.label),
                  location |-> Origin, history |-> <<>>, hide |-> FALSE])
           /\ rootObjects' = rootObjects \cup {id}
           /\ frame' = [frame EXCEPT !.text = id]
    /\ pc' = "convert"
    /\ UNCHANGED <<collections, activeCollection, materials, selected, active, mode,
                   editing, addon, image, main, trace, last, firstRun>>

SelectEverything(objs, sel, text) == DOMAIN objs

\* line 130: bpy.data.objects[text.name].select_set(True)
SelectText(objs, sel, text) == sel \cup {text}

\* lines 130-133: convert acts on every selected object
DrawConvert ==
    /\ pc = "convert"
    /\ LET sel == SelectText(objects, selected, frame.text)
       IN  /\ objects' = [i \in DOMAIN objects |->
                 IF i \in sel
                 THEN [objects[i] EXCEPT !.type = "MESH",
                                         !.history = Append(@, "convert")]
                 ELSE objects[i]]
           /\ selected' = sel \cup {active}
    /\ pc' = "edit"
    /\ UNCHANGED <<rootObjects, collections, activeCollection, materials, active, mode,
                   editing, addon, image, frame, main, trace, last, firstRun>>

\* line 134: the active object and the selected objects of its type enter edit mode
DrawEditMode ==
    /\ pc = "edit"
    /\ mode' = "EDIT"
    /\ editing' = {active} \cup
                  {i \in selected : objects[i].type = objects[active].type}
    /\ pc' = "extrude"
    /\ UNCHANGED <<objects, rootObjects, collections, activeCollection, materials,
                   selected, active, addon, image, frame, main, trace, last, firstRun>>

\* lines 135-136: all geometry of the objects in edit mode is extruded by 0.3
DrawExtrude ==
    /\ pc = "extrude"
    /\ objects' = [i \in DOMAIN objects |->
          IF i \in editing
          THEN [objects[i] EXCEPT !.dimensions[3] = RatAdd(@, Rat(3, 10)),
                                  !.history = Append(@, "extrude")]
          ELSE objects[i]]
    /\ pc' = "object_mode"
    /\ UNCHANGED <<rootObjects, collections, activeCollection, materials, selected,
                   active, mode, editing, addon, image, frame, main, trace, last,
                   firstRun>>

\* line 137
DrawObjectMode ==
    /\ pc = "object_mode"
    /\ mode' = "OBJECT"
    /\ editing' = {}
    /\ pc' = "place"
    /\ UNCHANGED <<objects, rootObjects, collections, activeCollection, materials,
                   selected, active, addon, image, frame, main, trace, last, firstRun>>

LabelLocationUsesZ(x, y, z) ==
    <<RatSub(x, Rat(1, 4)), RatSub(y, Rat(1, 4)), RatAdd(z, Rat(3, 10))>>

\* line 148
LabelLocation(x, y, z) == <<RatSub(x, Rat(1, 4)), RatSub(y, Rat(1, 4)), Rat(3, 10)>>

\* lines 139-148
DrawPlaceLabel ==
    /\ pc = "place"
    /\ selected' = {frame.led, frame.text}
    /\ objects' = [objects EXCEPT
          ![frame.text].dimensions = <<Rat(1, 2), Rat(1, 2), Rat(3, 10)>>,
          ![frame.text].location = LabelLocation(frame.x, frame.y, frame.z)]
    /\ pc' = "collection"
    /\ UNCHANGED <<rootObjects, collections, activeCollection, materials, active, mode,
                   editing, addon, image, frame, main, trace, last, firstRun>>

\* lines 151-154
DrawNewCollection ==
    /\ pc = "collection"
    /\ LET name == UniqueName(GroupName(frame.label), DOMAIN collections)
       IN  /\ collections' = collections @@ (name :> {})
           /\ frame' = [frame EXCEPT !.coll = name]
    /\ pc' = "link_led"
    /\ UNCHANGED <<objects, rootObjects, activeCollection, materials, selected, active,
                   mode, editing, addon, image, main, trace, last, firstRun>>

\* line 157
DrawLinkLed ==
    /\ pc = "link_led"
    /\ collections' = [collections EXCEPT ![frame.coll] = @ \cup {frame.led}]
    /\ pc' = "link_font"
    /\ UNCHANGED <<objects, rootObjects, activeCollection, materials, selected, active,
                   mode, editing, addon, image, frame, main, trace, last, firstRun>>

DrawLinkFontSkipped ==
    /\ pc = "link_font"
    /\ pc' = "deselect"
    /\ UNCHANGED <<objects, rootObjects, collections, activeCollection, materials,
                   selected, active, mode, editing, addon, image, frame, main, trace,
                   last, firstRun>>

\* line 158
DrawLinkFont ==
    /\ pc = "link_font"
    /\ collections' = [collections EXCEPT ![frame.coll] = @ \cup {frame.text}]
    /\ pc' = "deselect"
    /\ UNCHANGED <<objects, rootObjects, activeCollection, materials, selected, active,
                   mode, editing, addon, image, frame, main, trace, last, firstRun>>

AfterDrawStopsEarly(m) ==
    IF m.phase # "in_draw" THEN m ELSE [m EXCEPT !.phase = "done"]

\* __main__ after draw_object returns: the next entry of the loop, lines 201-219
AfterDraw(m) ==
    IF m.phase # "in_draw" THEN m
    ELSE IF m.i < Len(Entries) THEN [m EXCEPT !.phase = "led", !.i = m.i + 1]
    ELSE [m EXCEPT !.phase = "done"]

\* line 161 and the return
DrawDeselect ==
    /\ pc = "deselect"
    /\ selected' = {}
    /\ pc' = "idle"
    /\ last' = [frame EXCEPT !.op = "draw_object"]
    /\ frame' = NoFrame
    /\ main' = AfterDraw(main)
    /\ UNCHANGED <<objects, rootObjects, collections, activeCollection, materials,
                   active, mode, editing, addon, image, trace, firstRun>>

(***************************************************************************)
(* The scenes a run may start on: an empty one; the host's start-up scene, *)
(* whose collection 'Collection' is active and holds a selected, active    *)
(* cube with the material 'Material'; and a staged scene, which holds in   *)
(* addition a hidden object in a collection named 'Scenery'.               *)
(***************************************************************************)
NoObjects == [i \in {} |-> None]
NoCollections == [c \in {} |-> {}]
NoMaterials == [k \in {} |-> None]

Cube ==
    [name |-> "Cube", type |-> "MESH", shape |-> "cube", body |-> "",
     materials |-> <<"Material">>, dimensions |-> <<R(2), R(2), R(2)>>,
     location |-> Origin, history |-> <<>>, hide |-> FALSE]

Backdrop ==
    [name |-> "Backdrop", type |-> "MESH", shape |-> "plane", body |-> "",
     materials |-> <<>>, dimensions |-> <<R(2), R(2), R(0)>>,
     location |-> <<R(0), R(3), R(0)>>, history |-> <<>>, hide |-> TRUE]

StartScenes == {"empty", "default", "staged"}

StartScene(start) ==
    CASE start = "empty" ->
            [objects |-> NoObjects, collections |-> NoCollections,
             activeCollection |-> RootName, selected |-> {}, active |-> None,
             materials |-> NoMaterials]
      [] start = "default" ->
            [objects |-> (1 :> Cube), collections |-> ("Collection" :> {1}),
             activeCollection |-> "Collection", selected |-> {1}, active |-> 1,
             materials |-> ("Material" :> DefaultTree)]
      [] start = "staged" ->
            [objects |-> (1 :> Cube) @@ (2 :> Backdrop),
             collections |-> ("Collection" :> {1}) @@ ("Scenery" :> {2}),
             activeCollection |-> "Collection", selected |-> {1}, active |-> 1,
             materials |-> ("Material" :> DefaultTree)]

InitScene(start) ==
    /\ objects = StartScene(start).objects
    /\ rootObjects = {}
    /\ collections = StartScene(start).collections
    /\ activeCollection = StartScene(start).activeCollection
    /\ selected = StartScene(start).selected
    /\ active = StartScene(start).active
    /\ mode = "OBJECT"
    /\ editing = {}
    /\ addon \in BOOLEAN
    /\ image \in {[exists |-> FALSE, size |-> <<0, 0>>]}
                 \cup {[exists |-> TRUE, size |-> sz] : sz \in ImageSizes}
    /\ pc = "idle"
    /\ frame = NoFrame
    /\ trace = <<>>
    /\ last = [op |-> "none"]
    /\ firstRun = [op |-> "none"]

(***************************************************************************)
(* __main__, lines 193-219.                                                *)
(***************************************************************************)
Init ==
    \E start \in StartScenes :
        /\ InitScene(start)
        /\ materials = StartScene(start).materials
        /\ main = [phase |-> "load", i |-> 1, run |-> 1, start |-> start]

\* line 199
MainLoadUsMap ==
    /\ main.phase = "load"
    /\ pc = "idle"
    /\ LoadUsMap(90)
    /\ trace' = Append(trace, "load_us_map")
    /\ main' = [main EXCEPT !.phase = IF Len(Entries) = 0 THEN "done" ELSE "led"]
    /\ UNCHANGED <<image, pc, frame, firstRun>>

\* lines 204-215
MainLedShader ==
    /\ main.phase = "led"
    /\ pc = "idle"
    /\ LET id == LedShaderKey(255, 255, 255)
           res == NewShader(materials, id, "emissive", 255, 255, 255, 1)
       IN  /\ materials' = (id :> res.mat) @@ materials
           /\ last' = [op |-> "new_shader", id |-> id, node_type |-> "emissive",
                       rgb |-> <<255, 255, 255>>, intensity |-> 1,
                       raised |-> res.raised, pre |-> materials]
    /\ trace' = Append(trace, "new_shader")
    /\ main' = [main EXCEPT !.phase = "text"]
    /\ UNCHANGED <<objects, rootObjects, collections, activeCollection, selected,
                   active, mode, editing, addon, image, pc, frame, firstRun>>

\* lines 216-217
MainTextShader ==
    /\ main.phase = "text"
    /\ pc = "idle"
    /\ LET id == TextShaderKey(0, 0, 0)
           res == NewShader(materials, id, "diffuse", 0, 0, 0, None)
       IN  /\ materials' = (id :> res.mat) @@ materials
           /\ last' = [op |-> "new_shader", id |-> id, node_type |-> "diffuse",
                       rgb |-> <<0, 0, 0>>, intensity |-> None,
                       raised |-> res.raised, pre |-> materials]
    /\ trace' = Append(trace, "new_shader")
    /\ main' = [main EXCEPT !.phase = "draw"]
    /\ UNCHANGED <<objects, rootObjects, collections, activeCollection, selected,
                   active, mode, editing, addon, image, pc, frame, firstRun>>

\* lines 209, 218-219: mat and texmat are the materials the two calls returned
MainDrawObject ==
    /\ main.phase = "draw"
    /\ pc = "idle"
    /\ LET e == Entries[main.i]
       IN  DrawCylinder(e.pos[1], e.pos[2], e.pos[3], LedShaderKey(255, 255, 255),
                        e.state, TextShaderKey(0, 0, 0))
    /\ trace' = Append(trace, "draw_object")
    /\ main' = [main EXCEPT !.phase = "in_draw"]
    /\ UNCHANGED firstRun

\* the script is executed again on the scene the run before left
MainRerun ==
    /\ main.phase = "done"
    /\ main.run < MaxRuns
    /\ main' = [main EXCEPT !.phase = "load", !.i = 1, !.run = main.run + 1]
    /\ trace' = <<>>
    /\ firstRun' = IF main.run = 1 THEN Snapshot ELSE firstRun
    /\ last' = [op |-> "none"]
    /\ UNCHANGED <<scene, image, pc, frame>>

Next ==
    \/ MainLoadUsMap
    \/ MainLedShader
    \/ MainTextShader
    \/ MainDrawObject
    \/ MainRerun
    \/ DrawNewText
    \/ DrawConvert
    \/ DrawEditMode
    \/ DrawExtrude
    \/ DrawObjectMode
    \/ DrawPlaceLabel
    \/ DrawNewCollection
    \/ DrawLinkLed
    \/ DrawLinkFont
    \/ DrawDeselect

Spec == Init /\ [][Next]_vars

\* the interpreter runs one statement after the other: a statement that can
\* be executed is executed
SpecFair == Spec /\ WF_vars(Next)

(***************************************************************************)
(* The functions called one by one, in any order, on any scene they have   *)
(* built so far.  A call that raises ends the behaviour.                   *)
(***************************************************************************)
\* the materials lines 214-217 build
MainMaterials ==
    LET led == LedShaderKey(255, 255, 255)
        text == TextShaderKey(0, 0, 0)
    IN  (led :> NewShader(NoMaterials, led, "emissive", 255, 255, 255, 1).mat)
        @@ (text :> NewShader(NoMaterials, text, "diffuse", 0, 0, 0, None).mat)

InitApi ==
    \E start \in StartScenes :
        /\ InitScene(start)
        /\ materials = MainMaterials @@ StartScene(start).materials
        /\ main = [phase |-> "api", i |-> 1, run |-> 1, start |-> start]

Callable == main.phase = "api" /\ pc = "idle"

CallInitBlenderEnv ==
    /\ Callable
    /\ InitBlenderEnv
    /\ last' = [op |-> "init_blender_env", raised |-> FALSE,
                again |-> (last.op = "init_blender_env")]
    /\ UNCHANGED <<image, pc, frame, main, trace, firstRun>>

CallLoadUsMap ==
    /\ Callable
    /\ Cardinality(DOMAIN objects) < MaxObjects
    /\ \E max_size_dim \in ApiSizes : LoadUsMap(max_size_dim)
    /\ UNCHANGED <<image, pc, frame, main, trace, firstRun>>

CallDrawObject ==
    /\ Callable
    /\ Cardinality(DOMAIN objects) + 2 <= MaxObjects
    /\ \E pos \in ApiPositions, label \in ApiLabels :
          DrawCylinder(pos[1], pos[2], pos[3], LedShaderKey(255, 255, 255), label,
                       TextShaderKey(0, 0, 0))
    /\ UNCHANGED <<main, trace, firstRun>>

NextApi ==
    \/ CallInitBlenderEnv
    \/ CallLoadUsMap
    \/ CallDrawObject
    \/ DrawNewText
    \/ DrawConvert
    \/ DrawEditMode
    \/ DrawExtrude
    \/ DrawObjectMode
    \/ DrawPlaceLabel
    \/ DrawNewCollection
    \/ DrawLinkLed
    \/ DrawLinkFont
    \/ DrawDeselect

SpecApi == InitApi /\ [][NextApi]_vars

(***************************************************************************)
(* new_shader called again and again on the materials it has built so far. *)
(***************************************************************************)
InitShader ==
    /\ InitScene("empty")
    /\ ~addon
    /\ ~image.exists
    /\ materials = NoMaterials
    /\ main = [phase |-> "shader", i |-> 1, run |-> 1, start |-> "empty"]

CallNewShader ==
    /\ main.phase = "shader"
    /\ pc = "idle"
    /\ \E id \in ApiKeys, node_type \in ApiKinds, rgb \in ApiColours,
          intensity \in ApiIntensities :
          LET res == NewShader(materials, id, node_type, rgb[1], rgb[2], rgb[3],
                               intensity)
          IN  /\ materials' = (id :> res.mat) @@ materials
              /\ last' = [op |-> "new_shader", id |-> id, node_type |-> node_type,
                          rgb |-> rgb, intensity |-> intensity,
                          raised |-> res.raised, pre |-> materials]
              /\ pc' = IF res.raised THEN "raised" ELSE "idle"
    /\ UNCHANGED <<objects, rootObjects, collections, activeCollection, selected,
                   active, mode, editing, addon, image, frame, main, trace, firstRun>>

NextShader == CallNewShader

SpecShader == InitShader /\ [][NextShader]_vars

(***************************************************************************)
(* Properties.                                                             *)
(***************************************************************************)
Calls(f) == {i \in DOMAIN trace : trace[i] = f}

\* C1: in every run init_blender_env is called exactly once and before
\* load_us_map, and load_us_map is called before the first draw_object.
C1_ResetOnceThenLoaderThenComposer ==
    /\ Cardinality(Calls("init_blender_env")) <= 1
    /\ \A i \in Calls("load_us_map") : \E j \in Calls("init_blender_env") : j < i
    /\ \A i \in Calls("draw_object") : \E j \in Calls("load_us_map") : j < i
    /\ main.phase = "done" => Cardinality(Calls("init_blender_env")) = 1

MemberNames(objs, ids) == {objs[i].name : i \in ids}

\* the objects, groups and materials of a scene, by name
SceneContent(sn) ==
    [objects |-> ObjectNames(sn.objects),
     groups |-> [c \in DOMAIN sn.collections |->
                    MemberNames(sn.objects, sn.collections[c])],
     materials |-> sn.materials]

\* C2: a run started on the scene a previous run left ends with the same
\* objects, groups (exactly one group label + '_led' per entry) and materials
\* as the run that started on the empty scene.
C2_RerunEndsLikeRunOnEmptyScene ==
    (main.phase = "done" /\ main.run = 2 /\ main.start = "empty") =>
        /\ SceneContent(Snapshot) = SceneContent(firstRun)
        /\ DOMAIN collections = {GroupName(Entries[i].state) : i \in DOMAIN Entries}

OutputNodes(m) == {n \in DOMAIN m.nodes : m.nodes[n].type = "ShaderNodeOutputMaterial"}
ShaderNodes(m) == DOMAIN m.nodes \ OutputNodes(m)

\* a graph that was cleared, or that has an output node nothing is linked to
PartialGraph(m) ==
    /\ m.has_tree
    /\ \/ DOMAIN m.nodes = {}
       \/ \E n \in OutputNodes(m) : \A l \in m.links : l.to # n

\* C3: new_shader with a kind other than 'emissive' or 'diffuse' raises, no
\* material has been created under the key, and a material that existed under
\* the key is not left cleared or with an output node nothing is linked to.
C3_UnknownKindLeavesNoPartialGraph ==
    (last.op = "new_shader" /\ last.node_type \notin {"emissive", "diffuse"}) =>
        /\ last.raised
        /\ last.id \notin DOMAIN last.pre => last.id \notin DOMAIN materials
        /\ last.id \in DOMAIN last.pre =>
              last.id \in DOMAIN materials /\ ~PartialGraph(materials[last.id])

ValidShaderCall == last.op = "new_shader" /\ ~last.raised

RequestedType ==
    IF last.node_type = "emissive" THEN "ShaderNodeEmission" ELSE "ShaderNodeBsdfDiffuse"

\* C4: after every valid new_shader call there is a material under the key and
\* its graph has exactly one output node, exactly one shader node, of the kind
\* requested, and exactly one link, from that shader to that output.
C4_OneOutputOneShaderOneLink ==
    ValidShaderCall =>
        /\ last.id \in DOMAIN materials
        /\ LET m == materials[last.id]
           IN  /\ Cardinality(OutputNodes(m)) = 1
               /\ Cardinality(ShaderNodes(m)) = 1
               /\ \A n \in ShaderNodes(m) : m.nodes[n].type = RequestedType
               /\ Cardinality(m.links) = 1
               /\ \A l \in m.links : l.from \in ShaderNodes(m) /\ l.to \in OutputNodes(m)

\* C4 witness: a valid call on a key whose material had a shader of the other kind
C4_Witness ==
    /\ ValidShaderCall
    /\ last.id \in DOMAIN last.pre
    /\ \E n \in ShaderNodes(last.pre[last.id]) :
          last.pre[last.id].nodes[n].type # RequestedType

\* C5: after every valid new_shader call the shader linked to the output is of
\* the kind of that call, its colour input is (r, g, b, 1) of that call and,
\* for emissive, its strength is the intensity of that call.
C5_LastWriterWins ==
    ValidShaderCall =>
        LET m == materials[last.id]
            Latest(n) ==
                /\ m.nodes[n].type = RequestedType
                /\ m.nodes[n].inputs[1] =
                      <<R(last.rgb[1]), R(last.rgb[2]), R(last.rgb[3]), R(1)>>
                /\ last.node_type = "emissive" =>
                      m.nodes[n].inputs[2] = R(last.intensity)
        IN  /\ \E l \in m.links : l.from \in DOMAIN m.nodes /\ Latest(l.from)
            /\ \A n \in ShaderNodes(m) : Latest(n)

\* C5 witness: a valid emissive call on a key that held an emissive shader with
\* another colour and another strength
C5_Witness ==
    /\ ValidShaderCall
    /\ last.node_type = "emissive"
    /\ last.id \in DOMAIN last.pre
    /\ \E n \in ShaderNodes(last.pre[last.id]) :
          LET old == last.pre[last.id].nodes[n]
          IN  /\ old.type = "ShaderNodeEmission"
              /\ old.inputs[1] # materials[last.id].nodes[n].inputs[1]
              /\ old.inputs[2] # R(last.intensity)

Returned(f) == pc = "idle" /\ last.op = f

\* the names draw_object asks for are free when it is called
NonColliding ==
    /\ LedName(last.x, last.y, last.z) \notin ObjectNames(last.pre.objects)
    /\ FontName(TextBaseId(last.x, last.y, last.z)) \notin ObjectNames(last.pre.objects)
    /\ (last.label \o "_led") \notin DOMAIN last.pre.collections

\* C6: a draw_object call whose names do not collide adds exactly one group,
\* named label + '_led', and on return the group holds exactly the cylinder
\* and the label object the call created.
C6_OneGroupOfMarkerAndLabel ==
    (Returned("draw_object") /\ NonColliding) =>
        /\ DOMAIN collections \ DOMAIN last.pre.collections = {last.label \o "_led"}
        /\ DOMAIN last.pre.collections \subseteq DOMAIN collections
        /\ collections[last.label \o "_led"] = {last.led, last.text}
        /\ Cardinality({last.led, last.text}) = 2
        /\ {last.led, last.text} \cap DOMAIN last.pre.objects = {}
        /\ objects[last.led].shape = "cylinder"
        /\ objects[last.text].shape = "text" /\ objects[last.text].body = last.label

\* C6 witness: such a call returned on a scene that already held a group
C6_Witness ==
    /\ Returned("draw_object")
    /\ NonColliding
    /\ \E c \in DOMAIN last.pre.collections : StartsWith(c, "A")

TwoObjectsOneGroupAdded ==
    /\ DOMAIN objects = DOMAIN last.pre.objects \cup {last.led, last.text}
    /\ Cardinality(DOMAIN objects \ DOMAIN last.pre.objects) = 2
    /\ DOMAIN last.pre.collections \subseteq DOMAIN collections
    /\ Cardinality(DOMAIN collections \ DOMAIN last.pre.collections) = 1
    /\ \A i \in DOMAIN last.pre.objects : objects[i] = last.pre.objects[i]
    /\ materials = last.pre.materials

\* C7 as stated: draw_object adds two objects and one group and leaves every
\* other container's membership, the root container's included, the selected
\* set and the active object as they were.
C7_ComposerChangesNothingElse ==
    Returned("draw_object") =>
        /\ TwoObjectsOneGroupAdded
        /\ \A c \in DOMAIN last.pre.collections : collections[c] = last.pre.collections[c]
        /\ rootObjects = last.pre.rootObjects
        /\ selected = last.pre.selected
        /\ active = last.pre.active

\* C7 as amended: draw_object adds two objects and one group and leaves the
\* pre-existing objects and the material graphs as they were; the label is
\* linked to the root container and the cylinder to the active collection,
\* every other container keeps its members, nothing is selected on return
\* and the active object is the new cylinder.
C7_ComposerFrame ==
    Returned("draw_object") =>
        /\ TwoObjectsOneGroupAdded
        /\ \A c \in DOMAIN last.pre.collections :
              collections[c] = last.pre.collections[c] \cup
                  (IF c = last.pre.activeCollection THEN {last.led} ELSE {})
        /\ rootObjects = last.pre.rootObjects \cup {last.text} \cup
              (IF last.pre.activeCollection = RootName THEN {last.led} ELSE {})
        /\ activeCollection = last.pre.activeCollection
        /\ selected = {}
        /\ active = last.led

\* C7 witness: draw_object returned on a scene that held a selected object
\* and a group that is not the active collection
C7_Witness ==
    /\ Returned("draw_object")
    /\ last.pre.selected # {}
    /\ \E c \in DOMAIN last.pre.collections : c # last.pre.activeCollection

\* C8: when init_blender_env, load_us_map or draw_object has returned, no
\* object is selected.
C8_NothingSelectedOnReturn ==
    (Returned("init_blender_env") \/ Returned("load_us_map") \/ Returned("draw_object"))
        => selected = {}

\* C9: a load_us_map call on a path that does not exist reports it, returns
\* normally and changes no object, container, selection or active object.
C9_NotFoundChangesNothing ==
    [][(pc = "idle" /\ pc' = "idle" /\ last'.op = "load_us_map" /\ ~last'.found) =>
          /\ last'.reported
          /\ ~last'.raised
          /\ objects' = objects
          /\ rootObjects' = rootObjects
          /\ collections' = collections
          /\ selected' = selected
          /\ active' = active
          /\ materials' = materials]_vars

\* C9 witness: such a call returned on a scene that holds a selected object
C9_Witness ==
    /\ Returned("load_us_map")
    /\ ~last.found
    /\ last.reported
    /\ selected # {}
    /\ selected \subseteq DOMAIN objects

\* C10: when the image exists with pixel size (W, H), load_us_map(D, path)
\* leaves the imported plane with dimensions (D, D*H/W, 0) at (0, 0, 0): its
\* width is D and its length/width ratio is H/W.
C10_PlaneKeepsAspectRatio ==
    (Returned("load_us_map") /\ last.found) =>
        LET plane == objects[active]
            D == last.max_size_dim
            W == image.size[1]
            H == image.size[2]
        IN  /\ plane.shape = "plane"
            /\ plane.dimensions = <<R(D), Rat(D * H, W), R(0)>>
            /\ plane.dimensions[1] = <<D, 1>>
            /\ RatDiv(plane.dimensions[2], plane.dimensions[1]) = Rat(H, W)
            /\ plane.location = <<R(0), R(0), R(0)>>

\* C10 witness: an image whose length is not a multiple of its width, D = 7
C10_Witness ==
    /\ Returned("load_us_map")
    /\ last.found
    /\ image.size = <<1000, 1500>>
    /\ last.max_size_dim = 7
    /\ objects[active].dimensions[2] = Rat(21, 2)

\* the objects of the scene: those linked to the scene's root collection or
\* to a collection; an object whose only collection was removed is no longer
\* in the scene
SceneObjects == rootObjects \cup UNION {collections[c] : c \in DOMAIN collections}

\* a step in which a call of init_blender_env returns
ResetReturns ==
    /\ pc = "idle"
    /\ pc' = "idle"
    /\ last'.op = "init_blender_env"

C12_ResetIsIdempotent ==
    [][(ResetReturns /\ last.op = "init_blender_env") => scene' = scene]_vars

\* C12 witness: a second reset in a row has returned on a scene in which the
\* first one had left something
C12_Witness ==
    /\ Returned("init_blender_env")
    /\ last.again
    /\ SceneObjects # {}
    /\ DOMAIN collections # {}

\* C13: after draw_object(x, y, z, ..., label, ...) returns, the label object
\* is at (x - 0.25, y - 0.25, 0.3) and its dimensions are (0.5, 0.5, 0.3),
\* whatever the label text and whatever z.
C13_LabelPlacedOverMarker ==
    Returned("draw_object") =>
        LET font_obj == objects[last.text]
            x == last.x
            y == last.y
        IN  /\ font_obj.location =
                   <<Rat(4 * x[1] - x[2], 4 * x[2]), Rat(4 * y[1] - y[2], 4 * y[2]),
                     Rat(3, 10)>>
            /\ font_obj.dimensions = <<Rat(1, 2), Rat(1, 2), Rat(3, 10)>>
            /\ font_obj.body = last.label

\* C13 witness: a call with z = 1 and a six-letter label, whose text was
\* three units wide before it was resized
C13_Witness ==
    /\ Returned("draw_object")
    /\ last.z = R(1)
    /\ last.label = "Alaska"
    /\ TextDimensions(last.label)[1] = R(3)
    /\ objects[last.text].location = <<Rat(21, 4), Rat(33, 4), Rat(3, 10)>>

\* the groups whose name is the one draw_object asks for with this label, or
\* that name with the suffix the host adds when it is taken
GroupsOf(label) == {c \in DOMAIN collections : NameStem(c) = GroupName(label)}

C15_LabelStepsActOnLabelAlone ==
    /\ pc \in {"edit", "extrude", "object_mode"} =>
          /\ active = frame.text
          /\ selected = {frame.text}
          /\ editing \subseteq {frame.text}
    /\ \A i \in DOMAIN objects :
          objects[i].shape = "cylinder" =>
              /\ objects[i].history = <<>>
              /\ objects[i].dimensions = CylinderDimensions(Rat(1, 2), Rat(1, 2))

\* the groups draw_object makes for the entries of states_dict
EntryGroups == UNION {GroupsOf(Entries[k].state) : k \in DOMAIN Entries}

\* a group holding exactly two objects, one cylinder and one label
MarkerAndLabel(c) ==
    /\ Cardinality(collections[c]) = 2
    /\ \E i \in collections[c] : objects[i].shape = "cylinder"
    /\ \E i \in collections[c] : objects[i].shape = "text"

\* C16 as stated: in every reachable state of a run, the states inside a
\* draw_object call included, every group label + '_led' that exists holds
\* exactly two objects, one marker and one label.
C16_GroupNeverPartial == \A c \in EntryGroups : MarkerAndLabel(c)

\* C16, amended: whenever no draw_object call is in progress, every group
\* label + '_led' that exists holds exactly two objects, one marker and one
\* label; inside a call the group exists empty after line 154 and with the
\* marker alone after line 157.
C16_GroupCompleteBetweenCalls ==
    pc = "idle" => \A c \in EntryGroups : MarkerAndLabel(c)

\* C16 witness: between the first and the second draw_object call of a run
\* the group of the first entry is there with its two objects
C16_Witness ==
    /\ pc = "idle"
    /\ last.op = "draw_object"
    /\ main.phase = "led"
    /\ main.i = 2
    /\ last.coll \in EntryGroups
    /\ collections[last.coll] = {last.led, last.text}

\* C17: load_us_map enables the import add-on only when the image exists and
\* the add-on is not loaded yet; when the image does not exist, or the add-on
\* is loaded already, no enable call is made and the add-on state is as it
\* was before the call.
C17_AddonEnabledOnlyWhenImageExists ==
    Returned("load_us_map") =>
        /\ last.enabled => (last.found /\ ~last.loaded)
        /\ (~last.found \/ last.loaded) => (~last.enabled /\ addon = last.loaded)

\* coordinates to compare a coordinate c of a call with: c itself and values
\* that differ from it in the sign, in the integer part or in the fraction
Coordinates(c) ==
    {c, RatSub(R(0), c), RatAdd(c, R(5)), RatAdd(c, Rat(1, 2)), RatAdd(c, Rat(1, 20)),
     RatDiv(c, R(8))}

\* C18: the names draw_object asks for are an injective function of the
\* coordinates: a call with coordinates (x, y, z) asks for a cylinder name
\* 'LED_x_y_z' and a label name 'Text_x_y_z_font' that no call with other
\* coordinates asks for.
C18_NamesInjectiveInCoordinates ==
    Returned("draw_object") =>
        LET led == LedName(last.x, last.y, last.z)
            font == FontName(TextBaseId(last.x, last.y, last.z))
        IN  \A x \in Coordinates(last.x), y \in Coordinates(last.y),
               z \in Coordinates(last.z) :
                <<x, y, z>> # <<last.x, last.y, last.z>> =>
                    /\ LedName(x, y, z) # led
                    /\ FontName(TextBaseId(x, y, z)) # font

\* C18 witness: a call at (5.5, 8.5, 1.0) has returned and its two objects
\* have the names made from these coordinates
C18_Witness ==
    /\ Returned("draw_object")
    /\ <<last.x, last.y, last.z>> = <<Rat(11, 2), Rat(17, 2), R(1)>>
    /\ objects[last.led].name = "LED_5.5_8.5_1.0"
    /\ objects[last.text].name = "Text_5.5_8.5_1.0_font"

\* a graph of one shader node linked to one output node
CompleteGraph(m) ==
    /\ Cardinality(OutputNodes(m)) = 1
    /\ Cardinality(ShaderNodes(m)) = 1
    /\ Cardinality(m.links) = 1
    /\ \A l \in m.links : l.from \in ShaderNodes(m) /\ l.to \in OutputNodes(m)

\* every cylinder has the one material under the LED key, every label the one
\* under the text key, and both materials have a complete graph of their kind
MaterialsShared ==
    LET led == LedShaderKey(255, 255, 255)
        text == TextShaderKey(0, 0, 0)
    IN  /\ {led, text} \subseteq DOMAIN materials
        /\ \A i \in DOMAIN objects :
              /\ objects[i].shape = "cylinder" => objects[i].materials = <<led>>
              /\ objects[i].shape = "text" => objects[i].materials = <<text>>
        /\ CompleteGraph(materials[led])
        /\ CompleteGraph(materials[text])
        /\ \A n \in ShaderNodes(materials[led]) :
              materials[led].nodes[n].type = "ShaderNodeEmission"
        /\ \A n \in ShaderNodes(materials[text]) :
              materials[text].nodes[n].type = "ShaderNodeBsdfDiffuse"

\* a loop iteration of __main__ has just ended
IterationEnded == pc = "idle" /\ last.op = "draw_object" /\ main.phase \in {"led", "done"}

====
